---- MODULE Spec2Model ----
(***************************************************************************)
(* Model of src/function.py: class Animal_grouper.  One request is one     *)
(* construction of the object: validation, the bounded random search of    *)
(* group_based_on_deviation (once, or once per sex), the recombination of  *)
(* combine_lists_within_threshold and convert_to_df.                       *)
(*                                                                         *)
(* Weights are integers.  numpy's standard deviations are compared by      *)
(* their exact squares: std(a) > std(b) * p/q  iff                         *)
(* var(a) * q^2 > var(b) * p^2, with var(x) = VarNum(x) / Len(x)^2.        *)
(* np.std of an empty array is NaN, and every comparison with NaN is       *)
(* false; np.std of a list of lists of unequal lengths raises.             *)
(***************************************************************************)
EXTENDS Integers, Sequences, FiniteSets, Bags, TLC

\* ------------------------------------------------------------------ bounds
MaxRows == 4        \* rows of the dataset of a full request
MaxLen == 4         \* rows of the dataset the components are applied to
MaxWeight == 2      \* weights of that dataset are 1..MaxWeight
MaxGroups == 3      \* group_amount is 1..MaxGroups
MaxDraws == 3       \* applications of a component that are counted
MaxGroupLen == 2    \* samples in a group of a partition handed to a component

\* ------------------------------------------------------- program constants
WEIGHT_COLUMN == "Weight"
SEX_COLUMN == "Sex"
MAX_RETRIES == 1000

\* ------------------------------------------------------------ input domains
\* The weights of a full request (every retry loop of a request runs to
\* MAX_RETRIES, so its datasets are kept few).
RequestWeights == {1, 2}
Sexes == {"F", "M", "X"}
\* threshold as a fraction <<numerator, denominator>>
RequestThresholds == {<<1, 2>>}
Thresholds == {<<1, 2>>, <<1, 1>>}

SexRank(s) == CASE s = "F" -> 0 [] s = "M" -> 1 [] OTHER -> 2
RowLeq(a, b) ==
    \/ SexRank(a.Sex) < SexRank(b.Sex)
    \/ a.Sex = b.Sex /\ a.Weight <= b.Weight
\* Every multiset of at most n rows, each listed in one order (the first
\* thing done to a column is a full shuffle).
DatasetsOver(rows, maxlen) ==
    UNION {{d \in [1..n -> rows] : \A i \in 1..(n - 1) : RowLeq(d[i], d[i + 1])}
           : n \in 0..maxlen}
Datasets == DatasetsOver([Weight : RequestWeights, Sex : Sexes], MaxRows)
UnitDatasets == DatasetsOver([Weight : 1..MaxWeight, Sex : {"F", "M"}], MaxLen)
\* The lists of lists a caller can hand to check_std_deviation_within_threshold
\* or to convert_to_df: any number of groups up to MaxGroups, of any lengths.
GroupsOver(values, maxlen) == UNION {[1..n -> values] : n \in 0..maxlen}
Partitions ==
    UNION {[1..k -> GroupsOver(RequestWeights, MaxGroupLen)] : k \in 0..MaxGroups}
\* A request that is not gender-aware never reads the Sex values: it is tried
\* on the datasets whose rows all have Sex = "F".
Relevant(d, gender) == gender \/ \A i \in 1..Len(d) : d[i].Sex = "F"

VARIABLES
    df,                    \* the rows of the DataFrame
    columns,               \* df.columns
    group_amount,
    threshold,
    is_based_on_gender,
    pc,                    \* position of the request
    call,                  \* which search is running: "single", "female", "male"
    exception,             \* the exception that ended the request, or "none"
    raised_in,             \* the function that raised it, or "none"
    weight_data,           \* self.weight_data
    female_weight_ndarray,
    male_weight_ndarray,
    grouped_list,          \* local of group_based_on_deviation
    counter,               \* local of the running retry loop
    grouped_female,
    grouped_male,
    combined_list,         \* local of combine_lists_within_threshold
    picks,                 \* the values of `number` drawn for combined_list
    attrs,                 \* which of result, output, output_female, output_male are set
    result,
    output,
    output_female,
    output_male,
    generated,             \* candidates generated by the running call
    evaluated,             \* acceptance evaluations completed by the running call
    rejections,            \* of which returned "rejected"
    calls,                 \* the searches started so far, in order
    returned,              \* what a component called on its own returned, or "none"
    spent                  \* counter at the return of each search that returned

vars == <<df, columns, group_amount, threshold, is_based_on_gender, pc, call,
          exception, raised_in, weight_data, female_weight_ndarray, male_weight_ndarray,
          grouped_list, counter, grouped_female, grouped_male, combined_list,
          picks, attrs, result, output, output_female, output_male,
          generated, evaluated, rejections, calls, returned, spent>>

\* ----------------------------------------------------------------- helpers
RECURSIVE Sum(_)
Sum(s) == IF s = <<>> THEN 0 ELSE Head(s) + Sum(Tail(s))

RECURSIVE SumSq(_)
SumSq(s) == IF s = <<>> THEN 0 ELSE Head(s) * Head(s) + SumSq(Tail(s))

RECURSIVE Flatten(_)
Flatten(groups) == IF groups = <<>> THEN <<>> ELSE Head(groups) \o Flatten(Tail(groups))

RECURSIVE BagOf(_)
BagOf(s) == IF s = <<>> THEN EmptyBag ELSE SetToBag({Head(s)}) (+) BagOf(Tail(s))

RemoveAt(s, i) == SubSeq(s, 1, i - 1) \o SubSeq(s, i + 1, Len(s))

\* (variant: the rows are not filtered by Sex)
RECURSIVE ColumnOfEveryRow(_, _)
ColumnOfEveryRow(rows, sexes) ==
    IF rows = <<>> THEN <<>>
    ELSE <<Head(rows).Weight>> \o ColumnOfEveryRow(Tail(rows), sexes)

\* df[column] restricted to the rows whose Sex is in `sexes`
RECURSIVE Column(_, _)
Column(rows, sexes) ==
    IF rows = <<>> THEN <<>>
    ELSE (IF Head(rows).Sex \in sexes THEN <<Head(rows).Weight>> ELSE <<>>)
         \o Column(Tail(rows), sexes)

\* ------------------------------------------------------ the random source
\* random.shuffle(datas): every arrangement of the elements can come out.
\* An arrangement is built by its first value, then an arrangement of the rest.
FirstIndexOf(datas, v) ==
    CHOOSE i \in 1..Len(datas) : datas[i] = v /\ \A j \in 1..(i - 1) : datas[j] # v

RECURSIVE Shuffles(_)
Shuffles(datas) ==
    IF datas = <<>> THEN {<<>>}
    ELSE UNION {{<<v>> \o t : t \in Shuffles(RemoveAt(datas, FirstIndexOf(datas, v)))}
                : v \in {datas[i] : i \in 1..Len(datas)}}

\* ----------------------------------------------------------- partitioner
\* for i, data in enumerate(datas): groups[i % group_amount].append(data)
\* (i is 0-based in the source and 1-based here)
\* (variant: the group is overwritten instead of appended to)
RECURSIVE DistributeOverwriting(_, _, _)
DistributeOverwriting(datas, i, groups) ==
    IF i > Len(datas) THEN groups
    ELSE DistributeOverwriting(datas, i + 1,
             [groups EXCEPT ![((i - 1) % group_amount) + 1] = <<datas[i]>>])

RECURSIVE DistributeFrom(_, _, _)
DistributeFrom(datas, i, groups) ==
    IF i > Len(datas) THEN groups
    ELSE DistributeFrom(datas, i + 1,
             [groups EXCEPT ![((i - 1) % group_amount) + 1] = Append(@, datas[i])])

\* (variant: consecutive blocks of max_animal_per_group elements)
distribute_in_blocks(datas) ==
    LET max_animal_per_group == (Len(datas) + group_amount - 1) \div group_amount
    IN [k \in 1..group_amount |->
          SubSeq(datas, (k - 1) * max_animal_per_group + 1,
                 IF k * max_animal_per_group < Len(datas)
                 THEN k * max_animal_per_group ELSE Len(datas))]

distribute_data_evenly(datas) ==
    DistributeFrom(datas, 1, [k \in 1..group_amount |-> <<>>])

\* The outcomes of group_randomly(datas): the array as the in-place shuffle
\* leaves it, and the groups returned.
group_randomly(datas) ==
    {[datas |-> s, groups |-> distribute_data_evenly(s)] : s \in Shuffles(datas)}

\* ------------------------------------------------------- acceptance test
\* Len(x)^2 * (population variance of x)
VarNum(x) == Len(x) * SumSq(x) - Sum(x) * Sum(x)

\* np.std(group) > np.std(all) * p/q, on the squares; NaN compares false.
StdExceeds(group, all, thr) ==
    IF Len(group) = 0 \/ Len(all) = 0 THEN FALSE
    ELSE VarNum(group) * (Len(all) * Len(all)) * (thr[2] * thr[2])
            > VarNum(all) * (thr[1] * thr[1]) * (Len(group) * Len(group))

\* np.std(grouped_data) raises when the groups do not form a rectangular array.
Ragged(grouped_data) ==
    \E i, j \in 1..Len(grouped_data) : Len(grouped_data[i]) # Len(grouped_data[j])

\* (variant: the value the docstring describes, np.all(std_of_each_group <= ...))
check_all_within(grouped_data) ==
    \A i \in 1..Len(grouped_data) :
        ~StdExceeds(grouped_data[i], Flatten(grouped_data), threshold)

\* The value returned (when nothing is raised): np.any(std_of_each_group > ...)
check_std_deviation_within_threshold(grouped_data) ==
    \E i \in 1..Len(grouped_data) :
        StdExceeds(grouped_data[i], Flatten(grouped_data), threshold)

\* ---------------------------------------------------------- recombination
\* The for loop of combine_lists_within_threshold from position i on:
\* number = random.choice(group_label); append list1[i] + list2[number];
\* remove number from group_label.  Labels are 1-based here.
\* (variant: the drawn label is not removed from group_label)
RECURSIVE CombineWithReplacement(_, _, _, _, _, _)
CombineWithReplacement(list1, list2, i, group_label, acc, drawn) ==
    IF i > group_amount THEN {[combined |-> acc, picks |-> drawn]}
    ELSE UNION {CombineWithReplacement(list1, list2, i + 1, group_label,
                            Append(acc, list1[i] \o list2[number]),
                            Append(drawn, number))
                : number \in group_label}

RECURSIVE CombineFrom(_, _, _, _, _, _)
CombineFrom(list1, list2, i, group_label, acc, drawn) ==
    IF i > group_amount THEN {[combined |-> acc, picks |-> drawn]}
    ELSE UNION {CombineFrom(list1, list2, i + 1, group_label \ {number},
                            Append(acc, list1[i] \o list2[number]),
                            Append(drawn, number))
                : number \in group_label}

\* (variant: the groups of list2 keep their positions and list1's are drawn)
CombineOnceDrawingFirst(list1, list2) ==
    CombineFrom(list2, list1, 1, 1..group_amount, <<>>, <<>>)

CombineOnce(list1, list2) ==
    CombineFrom(list1, list2, 1, 1..group_amount, <<>>, <<>>)

\* -------------------------------------------------------- materialization
\* pandas: assigning a list as a column of a frame whose index is empty sets
\* the index from the list; afterwards a list of another length is refused.
RECURSIVE FrameLength(_, _)
FrameLength(grouped, len) ==
    IF grouped = <<>> THEN len
    ELSE FrameLength(Tail(grouped), IF len = 0 THEN Len(Head(grouped)) ELSE len)

RECURSIVE LengthMismatch(_, _)
LengthMismatch(grouped, len) ==
    IF grouped = <<>> THEN FALSE
    ELSE LET k == Len(Head(grouped)) IN
         IF len = 0 THEN LengthMismatch(Tail(grouped), k)
         ELSE k # len \/ LengthMismatch(Tail(grouped), len)

NoTable == [error |-> "none", names |-> <<>>, cols |-> <<>>]

convert_to_df(grouped) ==
    IF Len(grouped) < group_amount
    THEN [error |-> "ValueError", names |-> <<>>, cols |-> <<>>]
    ELSE IF LengthMismatch(grouped, 0)
    THEN [error |-> "ValueError", names |-> <<>>, cols |-> <<>>]
    ELSE [error |-> "none",
          names |-> [i \in 1..Len(grouped) |-> <<"Group", i>>],
          cols |-> [i \in 1..Len(grouped) |->
                      IF Len(grouped[i]) = 0 /\ FrameLength(grouped, 0) > 0
                      THEN [j \in 1..FrameLength(grouped, 0) |-> "NaN"]
                      ELSE grouped[i]]]

\* ------------------------------------------------------------- validation
\* (variant: only the Weight column is looked for)
SchemaInvalidWeightOnly(cols, gender) ==
    WEIGHT_COLUMN \notin cols

\* (variant: the Sex column is looked for only in gender mode)
SchemaInvalidSexOptional(cols, gender) ==
    WEIGHT_COLUMN \notin cols \/ (gender /\ SEX_COLUMN \notin cols)

\* WEIGHT_COLUMN not in df.columns or SEX_COLUMN not in df.columns
SchemaInvalid(cols, gender) ==
    WEIGHT_COLUMN \notin cols \/ SEX_COLUMN \notin cols

\* ------------------------------------------------------------------- state
\* Nothing computed yet.
Blank ==
    /\ call = "none"
    /\ exception = "none"
    /\ raised_in = "none"
    /\ grouped_list = <<>>
    /\ counter = 0
    /\ grouped_female = <<>>
    /\ grouped_male = <<>>
    /\ combined_list = <<>>
    /\ picks = <<>>
    /\ attrs = {}
    /\ result = <<>>
    /\ output = NoTable
    /\ output_female = NoTable
    /\ output_male = NoTable
    /\ generated = 0
    /\ evaluated = 0
    /\ rejections = 0
    /\ calls = <<>>
    /\ returned = "none"
    /\ spent = <<>>

\* A request: Animal_grouper(df, group_amount, threshold, is_based_on_gender)
Init ==
    /\ is_based_on_gender \in BOOLEAN
    /\ df \in {d \in Datasets : Relevant(d, is_based_on_gender)}
    /\ columns \in SUBSET {WEIGHT_COLUMN, SEX_COLUMN}
    /\ group_amount \in 1..MaxGroups
    /\ threshold \in RequestThresholds
    /\ pc = "init"
    /\ weight_data = <<>>
    /\ female_weight_ndarray = <<>>
    /\ male_weight_ndarray = <<>>
    /\ Blank

inputs == <<df, columns, group_amount, threshold, is_based_on_gender>>
arrays == <<weight_data, female_weight_ndarray, male_weight_ndarray>>
published == <<attrs, result, output, output_female, output_male>>
tally == <<generated, evaluated, rejections>>

\* The request ends with `exc` raised in `where`.
Raise(exc, where) ==
    /\ pc' = "raised"
    /\ exception' = exc
    /\ raised_in' = where

\* The array the running search was handed (it is shuffled in place).
Data ==
    CASE call = "single" -> weight_data
      [] call = "female" -> female_weight_ndarray
      [] call = "male" -> male_weight_ndarray

ShuffledTo(s) ==
    /\ weight_data' = IF call = "single" THEN s ELSE weight_data
    /\ female_weight_ndarray' = IF call = "female" THEN s ELSE female_weight_ndarray
    /\ male_weight_ndarray' = IF call = "male" THEN s ELSE male_weight_ndarray

\* What evaluating the acceptance test on a candidate does.
Verdict(grouped_data) ==
    IF Ragged(grouped_data) THEN "raises"
    ELSE IF check_std_deviation_within_threshold(grouped_data) THEN "rejected"
    ELSE "accepted"

\* ----------------------------------------------------------------- __init__
\* lines 22-23
SchemaError ==
    /\ pc = "init"
    /\ SchemaInvalid(columns, is_based_on_gender)
    /\ Raise("ValueError", "__init__")
    /\ UNCHANGED <<inputs, returned, spent, call, arrays, grouped_list, counter, grouped_female,
                   grouped_male, combined_list, picks, published, tally, calls>>

\* lines 25-35 up to the call of a search, and lines 169-172 in gender mode.
\* Reading a column that is absent raises KeyError.
Construct ==
    /\ pc = "init"
    /\ ~SchemaInvalid(columns, is_based_on_gender)
    /\ IF WEIGHT_COLUMN \notin columns
       THEN /\ Raise("KeyError", "__init__")
            /\ UNCHANGED <<call, arrays>>
       ELSE IF is_based_on_gender /\ SEX_COLUMN \notin columns
       THEN /\ Raise("KeyError", "group_based_on_deviation_and_gender")
            /\ weight_data' = Column(df, Sexes)
            /\ UNCHANGED <<call, female_weight_ndarray, male_weight_ndarray>>
       ELSE /\ weight_data' = Column(df, Sexes)
            /\ female_weight_ndarray' =
                   IF is_based_on_gender THEN Column(df, {"F"}) ELSE <<>>
            /\ male_weight_ndarray' =
                   IF is_based_on_gender THEN Column(df, {"M"}) ELSE <<>>
            /\ call' = IF is_based_on_gender THEN "female" ELSE "single"
            /\ pc' = "group_based_on_deviation"
            /\ UNCHANGED <<exception, raised_in>>
    /\ UNCHANGED <<inputs, returned, spent, grouped_list, counter, grouped_female, grouped_male,
                   combined_list, picks, published, tally, calls>>

\* ------------------------------------------------- group_based_on_deviation
\* (variant: the counter of the previous call is carried on)
SearchFirstKeepingCounter ==
    /\ pc = "group_based_on_deviation"
    /\ \E r \in group_randomly(Data) :
        /\ ShuffledTo(r.datas)
        /\ grouped_list' = r.groups
    /\ counter' = counter
    /\ generated' = 1
    /\ evaluated' = 0
    /\ rejections' = 0
    /\ calls' = Append(calls, call)
    /\ pc' = "while"
    /\ UNCHANGED <<inputs, returned, spent, call, exception, raised_in, grouped_female,
                   grouped_male, combined_list, picks, published>>

\* lines 111-112
SearchFirst ==
    /\ pc = "group_based_on_deviation"
    /\ \E r \in group_randomly(Data) :
        /\ ShuffledTo(r.datas)
        /\ grouped_list' = r.groups
    /\ counter' = 0
    /\ generated' = 1
    /\ evaluated' = 0
    /\ rejections' = 0
    /\ calls' = Append(calls, call)
    /\ pc' = "while"
    /\ UNCHANGED <<inputs, returned, spent, call, exception, raised_in, grouped_female, grouped_male,
                   combined_list, picks, published>>

\* line 113, the test raising inside numpy (ValueError, or TypeError with an
\* older numpy that builds an array of lists)
SearchCheckRaises ==
    /\ pc = "while"
    /\ Verdict(grouped_list) = "raises"
    /\ \E exc \in {"ValueError", "TypeError"} :
        Raise(exc, "check_std_deviation_within_threshold")
    /\ UNCHANGED <<inputs, returned, spent, call, arrays, grouped_list, counter, grouped_female,
                   grouped_male, combined_list, picks, published, tally, calls>>

\* lines 113-116, the retry limit not exceeded
SearchRetry ==
    /\ pc = "while"
    /\ Verdict(grouped_list) = "rejected"
    /\ ~(counter + 1 > MAX_RETRIES)
    /\ \E r \in group_randomly(Data) :
        /\ ShuffledTo(r.datas)
        /\ grouped_list' = r.groups
    /\ counter' = counter + 1
    /\ generated' = generated + 1
    /\ evaluated' = evaluated + 1
    /\ rejections' = rejections + 1
    /\ UNCHANGED <<inputs, returned, spent, pc, call, exception, raised_in, grouped_female,
                   grouped_male, combined_list, picks, published, calls>>

\* lines 113-119, the retry limit exceeded
SearchExhaust ==
    /\ pc = "while"
    /\ Verdict(grouped_list) = "rejected"
    /\ counter + 1 > MAX_RETRIES
    /\ \E r \in group_randomly(Data) :
        /\ ShuffledTo(r.datas)
        /\ grouped_list' = r.groups
    /\ counter' = counter + 1
    /\ generated' = generated + 1
    /\ evaluated' = evaluated + 1
    /\ rejections' = rejections + 1
    /\ Raise("OverRetryException", "group_based_on_deviation")
    /\ UNCHANGED <<inputs, returned, spent, call, grouped_female, grouped_male, combined_list,
                   picks, published, calls>>

\* lines 113 and 121
SearchReturn ==
    /\ pc = "while"
    /\ Verdict(grouped_list) = "accepted"
    /\ evaluated' = evaluated + 1
    /\ pc' = "return"
    /\ UNCHANGED <<inputs, returned, spent, call, exception, raised_in, arrays, grouped_list, counter,
                   grouped_female, grouped_male, combined_list, picks, published,
                   generated, rejections, calls>>

\* line 35: self.result = ...
AssignResult ==
    /\ pc = "return"
    /\ call = "single"
    /\ spent' = Append(spent, counter)
    /\ result' = grouped_list
    /\ attrs' = attrs \cup {"result"}
    /\ pc' = "convert_to_df"
    /\ UNCHANGED <<inputs, returned, call, exception, raised_in, arrays, grouped_list, counter,
                   grouped_female, grouped_male, combined_list, picks, output,
                   output_female, output_male, tally, calls>>

\* (variant: the female table is stored as soon as the female search returns)
AssignFemalePublishing ==
    /\ pc = "return"
    /\ call = "female"
    /\ spent' = Append(spent, counter)
    /\ grouped_female' = grouped_list
    /\ output_female' = convert_to_df(grouped_list)
    /\ attrs' = attrs \cup {"output_female"}
    /\ call' = "male"
    /\ pc' = "group_based_on_deviation"
    /\ UNCHANGED <<inputs, returned, exception, raised_in, arrays, grouped_list,
                   counter, grouped_male, combined_list, picks, result, output,
                   output_male, tally, calls>>

\* line 174: grouped_female = ..., then the call of line 175
AssignFemale ==
    /\ pc = "return"
    /\ call = "female"
    /\ spent' = Append(spent, counter)
    /\ grouped_female' = grouped_list
    /\ call' = "male"
    /\ pc' = "group_based_on_deviation"
    /\ UNCHANGED <<inputs, returned, exception, raised_in, arrays, grouped_list, counter,
                   grouped_male, combined_list, picks, published, tally, calls>>

\* line 175: grouped_male = ..., then the call of line 177 up to line 140
AssignMale ==
    /\ pc = "return"
    /\ call = "male"
    /\ spent' = Append(spent, counter)
    /\ grouped_male' = grouped_list
    /\ call' = "combine"
    /\ combined_list' = <<>>
    /\ picks' = <<>>
    /\ counter' = 0
    /\ generated' = 0
    /\ evaluated' = 0
    /\ rejections' = 0
    /\ calls' = Append(calls, "combine")
    /\ pc' = "combine"
    /\ UNCHANGED <<inputs, returned, exception, raised_in, arrays, grouped_list, grouped_female,
                   published>>

\* ------------------------------------------- combine_lists_within_threshold
\* (variant: a rejected matching sends the request back to the male search)
CombineAttemptSearchingAgain ==
    /\ pc = "combine"
    /\ ~(counter + 1 > MAX_RETRIES)
    /\ counter' = counter + 1
    /\ generated' = generated + 1
    /\ \E c \in CombineOnce(grouped_female, grouped_male) :
        /\ combined_list' = c.combined
        /\ picks' = c.picks
        /\ CASE Verdict(c.combined) = "raises" ->
                  /\ \E exc \in {"ValueError", "TypeError"} :
                        Raise(exc, "check_std_deviation_within_threshold")
                  /\ UNCHANGED <<call, evaluated, rejections>>
             [] Verdict(c.combined) = "rejected" ->
                  /\ evaluated' = evaluated + 1
                  /\ rejections' = rejections + 1
                  /\ call' = "male"
                  /\ pc' = "group_based_on_deviation"
                  /\ UNCHANGED <<exception, raised_in>>
             [] Verdict(c.combined) = "accepted" ->
                  /\ evaluated' = evaluated + 1
                  /\ pc' = "combine_return"
                  /\ UNCHANGED <<call, rejections, exception, raised_in>>
    /\ UNCHANGED <<inputs, returned, spent, arrays, grouped_list, grouped_female,
                   grouped_male, published, calls>>

\* One pass of the while loop, lines 142-158, the retry limit not exceeded.
CombineAttempt ==
    /\ pc = "combine"
    /\ ~(counter + 1 > MAX_RETRIES)
    /\ counter' = counter + 1
    /\ generated' = generated + 1
    /\ \E c \in CombineOnce(grouped_female, grouped_male) :
        /\ combined_list' = c.combined
        /\ picks' = c.picks
        /\ CASE Verdict(c.combined) = "raises" ->
                  /\ \E exc \in {"ValueError", "TypeError"} :
                        Raise(exc, "check_std_deviation_within_threshold")
                  /\ UNCHANGED <<evaluated, rejections>>
             [] Verdict(c.combined) = "rejected" ->
                  /\ evaluated' = evaluated + 1
                  /\ rejections' = rejections + 1
                  /\ UNCHANGED <<pc, exception, raised_in>>
             [] Verdict(c.combined) = "accepted" ->
                  /\ evaluated' = evaluated + 1
                  /\ pc' = "combine_return"
                  /\ UNCHANGED <<rejections, exception, raised_in>>
    /\ UNCHANGED <<inputs, returned, spent, call, arrays, grouped_list, grouped_female, grouped_male,
                   published, calls>>

\* The pass that exceeds the limit, lines 142-157: a candidate is built and
\* OverRetryException is raised before it is tested.
CombineExhaust ==
    /\ pc = "combine"
    /\ counter + 1 > MAX_RETRIES
    /\ counter' = counter + 1
    /\ generated' = generated + 1
    /\ \E c \in CombineOnce(grouped_female, grouped_male) :
        /\ combined_list' = c.combined
        /\ picks' = c.picks
    /\ Raise("OverRetryException", "combine_lists_within_threshold")
    /\ UNCHANGED <<inputs, returned, spent, call, arrays, grouped_list, grouped_female, grouped_male,
                   published, evaluated, rejections, calls>>

\* -------------------------------------- group_based_on_deviation_and_gender
\* lines 179-182 and the assignment of line 32
GenderFinish ==
    /\ pc = "combine_return"
    /\ LET f == convert_to_df(grouped_female)
           m == convert_to_df(grouped_male)
       IN IF f.error # "none"
          THEN /\ Raise(f.error, "convert_to_df")
               /\ UNCHANGED published
          ELSE IF m.error # "none"
          THEN /\ Raise(m.error, "convert_to_df")
               /\ output_female' = f
               /\ attrs' = attrs \cup {"output_female"}
               /\ UNCHANGED <<result, output, output_male>>
          ELSE /\ output_female' = f
               /\ output_male' = m
               /\ result' = combined_list
               /\ attrs' = attrs \cup {"output_female", "output_male", "result"}
               /\ pc' = "convert_to_df"
               /\ UNCHANGED <<output, exception, raised_in>>
    /\ UNCHANGED <<inputs, returned, spent, call, arrays, grouped_list, counter, grouped_female,
                   grouped_male, combined_list, picks, tally, calls>>

\* line 37: self.output = self.convert_to_df(self.result)
Materialize ==
    /\ pc = "convert_to_df"
    /\ LET t == convert_to_df(result)
       IN IF t.error # "none"
          THEN /\ Raise(t.error, "convert_to_df")
               /\ UNCHANGED <<output, attrs>>
          ELSE /\ output' = t
               /\ attrs' = attrs \cup {"output"}
               /\ pc' = "done"
               /\ UNCHANGED <<exception, raised_in>>
    /\ UNCHANGED <<inputs, returned, spent, call, arrays, grouped_list, counter, grouped_female,
                   grouped_male, combined_list, picks, result, output_female,
                   output_male, tally, calls>>

Next ==
    \/ SchemaError
    \/ Construct
    \/ SearchFirst
    \/ SearchCheckRaises
    \/ SearchRetry
    \/ SearchExhaust
    \/ SearchReturn
    \/ AssignResult
    \/ AssignFemale
    \/ AssignMale
    \/ CombineAttempt
    \/ CombineExhaust
    \/ GenderFinish
    \/ Materialize

Spec == Init /\ [][Next]_vars

\* ------------------------------------------------- the components on their own
\* The partitioner and the recombination applied, any number of times, to the
\* columns of a dataset, whatever the acceptance test says of the outcome.
InitUnit ==
    /\ is_based_on_gender \in BOOLEAN
    /\ df \in {d \in UnitDatasets : Relevant(d, is_based_on_gender)}
    /\ columns = {WEIGHT_COLUMN, SEX_COLUMN}
    /\ group_amount \in 1..MaxGroups
    /\ threshold \in Thresholds
    /\ pc = "unit"
    /\ weight_data = Column(df, Sexes)
    /\ female_weight_ndarray = Column(df, {"F"})
    /\ male_weight_ndarray = Column(df, {"M"})
    /\ Blank

\* group_randomly(self.weight_data), lines 62-80
UnitPartition ==
    /\ pc = "unit"
    /\ ~is_based_on_gender
    /\ generated < MaxDraws
    /\ \E r \in group_randomly(weight_data) :
        /\ weight_data' = r.datas
        /\ grouped_list' = r.groups
    /\ generated' = generated + 1
    /\ UNCHANGED <<inputs, returned, spent, pc, call, exception, raised_in, female_weight_ndarray,
                   male_weight_ndarray, counter, grouped_female, grouped_male,
                   combined_list, picks, published, evaluated, rejections, calls>>

\* group_randomly(female_weight_ndarray)
UnitPartitionFemale ==
    /\ pc = "unit"
    /\ is_based_on_gender
    /\ \E r \in group_randomly(female_weight_ndarray) :
        /\ female_weight_ndarray' = r.datas
        /\ grouped_female' = r.groups
    /\ combined_list' = <<>>
    /\ picks' = <<>>
    /\ UNCHANGED <<inputs, returned, spent, pc, call, exception, raised_in, weight_data,
                   male_weight_ndarray, grouped_list, counter, grouped_male,
                   published, tally, calls>>

\* group_randomly(male_weight_ndarray)
UnitPartitionMale ==
    /\ pc = "unit"
    /\ is_based_on_gender
    /\ \E r \in group_randomly(male_weight_ndarray) :
        /\ male_weight_ndarray' = r.datas
        /\ grouped_male' = r.groups
    /\ combined_list' = <<>>
    /\ picks' = <<>>
    /\ UNCHANGED <<inputs, returned, spent, pc, call, exception, raised_in, weight_data,
                   female_weight_ndarray, grouped_list, counter, grouped_female,
                   published, tally, calls>>

\* One candidate of combine_lists_within_threshold, lines 143-152
UnitCombine ==
    /\ pc = "unit"
    /\ is_based_on_gender
    /\ Len(grouped_female) = group_amount
    /\ Len(grouped_male) = group_amount
    /\ \E c \in CombineOnce(grouped_female, grouped_male) :
        /\ combined_list' = c.combined
        /\ picks' = c.picks
    /\ UNCHANGED <<inputs, returned, spent, pc, call, exception, raised_in, arrays, grouped_list,
                   counter, grouped_female, grouped_male, published, tally, calls>>

NextUnit ==
    \/ UnitPartition
    \/ UnitPartitionFemale
    \/ UnitPartitionMale
    \/ UnitCombine

SpecUnit == InitUnit /\ [][NextUnit]_vars

\* -------------------------------------- the acceptance test and convert_to_df
\* check_std_deviation_within_threshold(grouped_list) and
\* convert_to_df(grouped_list) called on an object whose group_amount and
\* threshold are set, with any list of lists as the argument.
InitCall ==
    /\ is_based_on_gender = FALSE
    /\ df = <<>>
    /\ columns = {WEIGHT_COLUMN, SEX_COLUMN}
    /\ group_amount \in 1..MaxGroups
    /\ threshold \in Thresholds
    /\ pc = "call"
    /\ weight_data = <<>>
    /\ female_weight_ndarray = <<>>
    /\ male_weight_ndarray = <<>>
    /\ call = "none"
    /\ exception = "none"
    /\ raised_in = "none"
    /\ grouped_list \in Partitions
    /\ counter = 0
    /\ grouped_female = <<>>
    /\ grouped_male = <<>>
    /\ combined_list = <<>>
    /\ picks = <<>>
    /\ attrs = {}
    /\ result = <<>>
    /\ output = NoTable
    /\ output_female = NoTable
    /\ output_male = NoTable
    /\ generated = 0
    /\ evaluated = 0
    /\ rejections = 0
    /\ calls = <<>>
    /\ returned = "none"
    /\ spent = <<>>

\* lines 94-97: np.std(grouped_data) raises on groups of unequal lengths,
\* otherwise the value of np.any(...) is returned
CallCheck ==
    /\ pc = "call"
    /\ IF Ragged(grouped_list)
       THEN /\ \E exc \in {"ValueError", "TypeError"} :
                  Raise(exc, "check_std_deviation_within_threshold")
            /\ UNCHANGED returned
       ELSE /\ returned' = IF check_std_deviation_within_threshold(grouped_list)
                           THEN "True" ELSE "False"
            /\ pc' = "checked"
            /\ UNCHANGED <<exception, raised_in>>
    /\ UNCHANGED <<inputs, spent, call, arrays, grouped_list, counter, grouped_female,
                   grouped_male, combined_list, picks, published, tally, calls>>

\* lines 196-206
CallConvert ==
    /\ pc = "call"
    /\ LET t == convert_to_df(grouped_list)
       IN IF t.error # "none"
          THEN /\ Raise(t.error, "convert_to_df")
               /\ UNCHANGED output
          ELSE /\ output' = t
               /\ pc' = "converted"
               /\ UNCHANGED <<exception, raised_in>>
    /\ UNCHANGED <<inputs, returned, spent, call, arrays, grouped_list, counter,
                   grouped_female, grouped_male, combined_list, picks, attrs, result,
                   output_female, output_male, tally, calls>>

NextCall ==
    \/ CallCheck
    \/ CallConvert

SpecCall == InitCall /\ [][NextCall]_vars

\* ------------------------------------------------------------------ claims
\* The acceptance bound as the specification words it: the standard deviation
\* of the group is at most threshold times that of the pooled samples (a
\* group of no or one sample has deviation 0).
WithinBound(group, all, thr) ==
    VarNum(group) * (Len(all) * Len(all)) * (thr[2] * thr[2])
        <= VarNum(all) * (thr[1] * thr[1]) * (Len(group) * Len(group))

AllWithin(groups) ==
    \A i \in 1..Len(groups) : WithinBound(groups[i], Flatten(groups), threshold)

SearchRaisedOverRetry ==
    exception = "OverRetryException" /\ raised_in = "group_based_on_deviation"

\* C1: when group_based_on_deviation raises OverRetryException, exactly
\* MAX_RETRIES (1000) acceptance evaluations of that call returned "rejected".
C1_ExhaustAfterMaxRetriesRejections ==
    SearchRaisedOverRetry => rejections = MAX_RETRIES /\ evaluated = MAX_RETRIES

\* C2: when group_based_on_deviation returns, the partition it returns is the
\* one candidate of the call that was accepted: every candidate generated was
\* evaluated, every one before the last was rejected, and the returned one has
\* every group's deviation within the bound; what the caller stores is that
\* partition.
C2_ReturnsFirstAccepted ==
    /\ pc = "return" =>
           /\ AllWithin(grouped_list)
           /\ generated = evaluated
           /\ rejections = evaluated - 1
           /\ counter = rejections
    /\ "result" \in attrs /\ ~is_based_on_gender =>
           result = grouped_list /\ AllWithin(result)
    /\ call \in {"male", "combine"} => AllWithin(grouped_female)
    /\ call = "combine" => AllWithin(grouped_male)

C2_ReturnedAfterRejections ==
    /\ pc = "return"
    /\ rejections >= 2
    /\ Len(grouped_list) = 2
    /\ Len(grouped_list[1]) = 2

\* C3: every candidate handed to the acceptance test, groups of unequal sizes
\* included, is accepted if every group's deviation is within the bound and
\* rejected otherwise.
C3_AcceptedIffAllWithinBound ==
    pc = "while" =>
        Verdict(grouped_list) = IF AllWithin(grouped_list) THEN "accepted" ELSE "rejected"

\* C4: the groups returned by group_randomly are group_amount in number and
\* hold the samples of the input column exactly once each (as multisets), on
\* every call, for the empty column too.
IsPartitionOf(groups, column) ==
    /\ Len(groups) = group_amount
    /\ BagOf(Flatten(groups)) = BagOf(column)
    /\ Len(Flatten(groups)) = Len(column)

C4_GroupsCoverInputExactlyOnce ==
    /\ ~is_based_on_gender /\ generated >= 1 =>
           IsPartitionOf(grouped_list, Column(df, Sexes))
    /\ grouped_female # <<>> => IsPartitionOf(grouped_female, Column(df, {"F"}))
    /\ grouped_male # <<>> => IsPartitionOf(grouped_male, Column(df, {"M"}))

C4_RepartitionedWithDuplicates ==
    /\ ~is_based_on_gender
    /\ generated >= 2
    /\ group_amount = 2
    /\ Len(weight_data) = 3
    /\ weight_data # Column(df, Sexes)
    /\ \E i, j \in 1..3 : i # j /\ weight_data[i] = weight_data[j]

\* C5: the element at (0-based) position i of the shuffled array is in group
\* i mod group_amount, so every group has floor(n/g) or ceil(n/g) elements and
\* two groups differ in size by at most 1.
RoundRobin(groups, shuffled) ==
    LET n == Len(shuffled)
        g == group_amount
    IN /\ \A k \in 1..g : Len(groups[k]) \in {n \div g, (n + g - 1) \div g}
       /\ \A j, k \in 1..g : Len(groups[j]) - Len(groups[k]) <= 1
       /\ \A i \in 0..(n - 1) :
              /\ Len(groups[(i % g) + 1]) > i \div g
              /\ groups[(i % g) + 1][(i \div g) + 1] = shuffled[i + 1]

C5_RoundRobinNearEvenSizes ==
    /\ ~is_based_on_gender /\ generated >= 1 => RoundRobin(grouped_list, weight_data)
    /\ grouped_female # <<>> => RoundRobin(grouped_female, female_weight_ndarray)
    /\ grouped_male # <<>> => RoundRobin(grouped_male, male_weight_ndarray)

C5_UnevenSplit ==
    /\ ~is_based_on_gender
    /\ generated >= 1
    /\ group_amount = 3
    /\ Len(weight_data) = 4
    /\ Len(grouped_list[1]) = 2
    /\ Len(grouped_list[3]) = 1

\* C6: a merged partition built by combine_lists_within_threshold matches the
\* female and male groups one to one: group_amount merged groups, every male
\* index drawn exactly once, merged group i = female group i followed by the
\* male group drawn for it, and as many elements as females plus males.
C6_RecombinationIsOneToOne ==
    combined_list # <<>> =>
        /\ Len(combined_list) = group_amount
        /\ Len(picks) = group_amount
        /\ {picks[i] : i \in 1..Len(picks)} = 1..group_amount
        /\ \A i \in 1..group_amount :
              /\ combined_list[i] = grouped_female[i] \o grouped_male[picks[i]]
              /\ Len(combined_list[i]) = Len(grouped_female[i]) + Len(grouped_male[picks[i]])
        /\ Len(Flatten(combined_list))
              = Len(Column(df, {"F"})) + Len(Column(df, {"M"}))

C6_CrossedMatchingOfUnevenGroups ==
    /\ combined_list # <<>>
    /\ group_amount = 2
    /\ picks = <<2, 1>>
    /\ Len(grouped_female[1]) = 2
    /\ Len(grouped_female[2]) = 1
    /\ Len(grouped_male[1]) = 1
    /\ Len(grouped_male[2]) = 0
    /\ Len(combined_list[1]) = 2

\* C7: both retry loops give up after the same number of rejected candidates,
\* MAX_RETRIES (1000), and a merged partition that is returned was accepted.
C7_SameCeilingInBothLoops ==
    /\ exception = "OverRetryException" =>
           rejections = MAX_RETRIES /\ raised_in \in {"group_based_on_deviation",
                                                     "combine_lists_within_threshold"}
    /\ pc = "combine_return" => AllWithin(combined_list)

\* C8: a request on a dataset without the Weight column, or without the Sex
\* column in gender mode, ends with the ValueError of __init__, with no random
\* draw made, no candidate built and no acceptance evaluation done.
NothingDone ==
    /\ calls = <<>>
    /\ generated = 0
    /\ evaluated = 0
    /\ grouped_list = <<>>
    /\ combined_list = <<>>
    /\ attrs = {}

C8_SchemaErrorBeforeAnyDraw ==
    /\ pc = "init" => NothingDone
    /\ pc # "init"
         /\ (WEIGHT_COLUMN \notin columns
               \/ (is_based_on_gender /\ SEX_COLUMN \notin columns)) =>
           /\ pc = "raised"
           /\ exception = "ValueError"
           /\ raised_in = "__init__"
           /\ NothingDone

C8_GenderRequestWithoutSex ==
    /\ pc = "raised"
    /\ is_based_on_gender
    /\ columns = {WEIGHT_COLUMN}
    /\ Len(df) = 2

\* C9 as claimed: the ValueError of __init__ is raised exactly when Weight is
\* missing, or Sex is missing and the request is gender-aware.
C9_SexRequiredOnlyInGenderMode ==
    pc # "init" =>
        ((exception = "ValueError" /\ raised_in = "__init__")
            <=> (WEIGHT_COLUMN \notin columns
                   \/ (is_based_on_gender /\ SEX_COLUMN \notin columns)))

\* C9 amended: the ValueError of __init__ is raised exactly when Weight or Sex
\* is missing, whatever is_based_on_gender is; a request that is not
\* gender-aware on a dataset with Weight and without Sex raises it and starts
\* no grouping.
C9_SchemaErrorIffAColumnMissing ==
    /\ pc # "init" =>
        ((exception = "ValueError" /\ raised_in = "__init__")
            <=> (WEIGHT_COLUMN \notin columns \/ SEX_COLUMN \notin columns))
    /\ exception = "ValueError" /\ raised_in = "__init__" => NothingDone

C9_PlainRequestWithoutSexRaises ==
    /\ pc = "raised"
    /\ ~is_based_on_gender
    /\ columns = {WEIGHT_COLUMN}
    /\ exception = "ValueError"
    /\ raised_in = "__init__"
    /\ Len(df) = 2

\* C10: the arrays handed to group_randomly hold, at any time, the elements of
\* their column of the dataset in the column's order.
C10_PartitionerLeavesInputUnchanged ==
    calls # <<>> =>
        /\ weight_data = Column(df, Sexes)
        /\ is_based_on_gender =>
               /\ female_weight_ndarray = Column(df, {"F"})
               /\ male_weight_ndarray = Column(df, {"M"})

\* C11: when OverRetryException ends a request, whichever search or the
\* recombination raised it, none of result, output, output_female,
\* output_male has been set: the partitions accepted before the failure are
\* not published.
C11_OverRetryPublishesNothing ==
    exception = "OverRetryException" =>
        /\ attrs = {}
        /\ result = <<>>
        /\ output = NoTable
        /\ output_female = NoTable
        /\ output_male = NoTable

C11_FailedAfterFemaleAccepted ==
    /\ exception = "OverRetryException"
    /\ calls = <<"female", "male">>
    /\ raised_in = "group_based_on_deviation"
    /\ Len(grouped_female) = 2
    /\ Len(male_weight_ndarray) = 4

\* C12: in a gender-aware request the female array holds exactly the weights
\* of the rows with Sex = "F" and the male array those with Sex = "M"; when the
\* request succeeds no error was raised, the final result holds exactly the
\* weights of the F and M rows (as multisets), and output_female and
\* output_male hold exactly the F and the M weights: rows with another Sex
\* are left out of all three.
WeightsOfSex(sex) ==
    LET rows == SelectSeq(df, LAMBDA row : row.Sex = sex)
    IN BagOf([i \in 1..Len(rows) |-> rows[i].Weight])

C12_OnlyFemaleAndMaleRowsGrouped ==
    /\ is_based_on_gender /\ call # "none" =>
           /\ BagOf(female_weight_ndarray) = WeightsOfSex("F")
           /\ BagOf(male_weight_ndarray) = WeightsOfSex("M")
    /\ is_based_on_gender /\ pc = "done" =>
           /\ exception = "none"
           /\ BagOf(Flatten(result)) = WeightsOfSex("F") (+) WeightsOfSex("M")
           /\ BagOf(Flatten(output_female.cols)) = WeightsOfSex("F")
           /\ BagOf(Flatten(output_male.cols)) = WeightsOfSex("M")

C12_SucceededWithOtherSexDropped ==
    /\ is_based_on_gender
    /\ pc = "done"
    /\ Len(df) = 4
    /\ \E i \in 1..Len(df) : df[i].Sex = "X"
    /\ Len(Flatten(result)) = 3
    /\ Len(Flatten(output_female.cols)) = 1
    /\ Len(Flatten(output_male.cols)) = 2

\* C13: convert_to_df raises ValueError exactly when the partition has fewer
\* than group_amount groups, and then produces no table; otherwise it returns
\* a table whose columns are named "Group 1".."Group N" in group order, column
\* k holding exactly the values of group k.
C13_RaisesIffTooFewGroups ==
    /\ raised_in = "convert_to_df" =>
           /\ exception = "ValueError"
           /\ Len(grouped_list) < group_amount
           /\ output = NoTable
    /\ pc = "converted" =>
           /\ Len(grouped_list) >= group_amount
           /\ output.names = [k \in 1..Len(grouped_list) |-> <<"Group", k>>]
           /\ Len(output.cols) = Len(grouped_list)
           /\ \A k \in 1..Len(grouped_list) :
                  /\ Len(output.cols[k]) = Len(grouped_list[k])
                  /\ output.cols[k] = grouped_list[k]

\* C14: a request that is not gender-aware on a dataset whose size is not a
\* multiple of group_amount is not ended by an error of the acceptance test or
\* of convert_to_df: it ends with a table of group_amount columns, or with
\* OverRetryException.
C14_UnevenInputGroupedAndPadded ==
    (/\ ~is_based_on_gender
     /\ columns = {WEIGHT_COLUMN, SEX_COLUMN}
     /\ Len(df) % group_amount # 0) =>
        /\ exception \in {"none", "OverRetryException"}
        /\ pc = "done" =>
               /\ output.error = "none"
               /\ Len(output.cols) = group_amount

\* C15: whenever check_std_deviation_within_threshold returns, it returns True
\* if every group's deviation is within the bound and False otherwise.
C15_ReturnsTrueIffAllWithin ==
    pc = "checked" => ((returned = "True") <=> AllWithin(grouped_list))

\* C16: in a request that is not gender-aware on a dataset whose weights are
\* all equal, the first candidate is accepted: nothing is raised, no candidate
\* is rejected, the counter stays 0, and the result has group_amount groups of
\* equal size holding only that weight.
C16_EqualWeightsAcceptedAtOnce ==
    (/\ ~is_based_on_gender
     /\ columns = {WEIGHT_COLUMN, SEX_COLUMN}
     /\ \A i, j \in 1..Len(df) : df[i].Weight = df[j].Weight) =>
        /\ exception = "none"
        /\ counter = 0
        /\ rejections = 0
        /\ "result" \in attrs =>
               /\ Len(result) = group_amount
               /\ \A j, k \in 1..Len(result) : Len(result[j]) = Len(result[k])
               /\ \A k \in 1..Len(result) : \A i \in 1..Len(result[k]) :
                      result[k][i] = df[1].Weight

\* C17: in a gender-aware request the searches start in the order female,
\* male, recombination, each once: the male search starts only after the
\* female search returned its partition, the recombination only after the male
\* search returned its own, and a pass of the recombination loop changes
\* neither partition and starts no search; the recombination evaluates at most
\* MAX_RETRIES (1000) matchings.  Every step of a request lowers StepsLeft, a
\* natural number that is 0 exactly when the request has ended with a result
\* or an exception, and a request that has not ended satisfies the guard of
\* one of the steps (CanStep): every request ends.
IsPrefix(s, t) == Len(s) <= Len(t) /\ s = SubSeq(t, 1, Len(s))

PhasesLeft ==
    CASE pc \in {"done", "raised"} -> 0
      [] pc = "convert_to_df" -> 1
      [] pc = "combine_return" -> 2
      [] pc = "combine" -> 3
      [] pc = "return" /\ call \in {"single", "male"} -> 4
      [] pc = "while" /\ call \in {"single", "male"} -> 5
      [] pc = "group_based_on_deviation" /\ call \in {"single", "male"} -> 6
      [] pc = "return" /\ call = "female" -> 7
      [] pc = "while" /\ call = "female" -> 8
      [] pc = "group_based_on_deviation" /\ call = "female" -> 9
      [] OTHER -> 10

StepsLeft ==
    PhasesLeft * (MAX_RETRIES + 3)
        + (IF pc \in {"while", "combine"} THEN MAX_RETRIES + 2 - counter ELSE 0)

CanStep ==
    \/ pc \in {"init", "combine_return", "convert_to_df"}
    \/ /\ pc \in {"group_based_on_deviation", "while", "return"}
       /\ call \in {"single", "female", "male"}
       /\ group_randomly(Data) # {}
       /\ Verdict(grouped_list) \in {"raises", "rejected", "accepted"}
    \/ /\ pc = "combine"
       /\ CombineOnce(grouped_female, grouped_male) # {}

GenderPhasesInOrder ==
    /\ is_based_on_gender => IsPrefix(calls, <<"female", "male", "combine">>)
    /\ call = "female" => IsPrefix(calls, <<"female">>)
    /\ call = "male" =>
           /\ IsPrefix(calls, <<"female", "male">>) /\ calls # <<>>
           /\ Len(grouped_female) = group_amount
           /\ Len(spent) = 1
    /\ call = "combine" =>
           /\ calls = <<"female", "male", "combine">>
           /\ Len(grouped_female) = group_amount
           /\ Len(grouped_male) = group_amount
           /\ Len(spent) = 2
           /\ evaluated <= MAX_RETRIES
    /\ StepsLeft >= 0
    /\ (StepsLeft = 0) <=> (pc \in {"done", "raised"})
    /\ pc = "done" <=> "output" \in attrs
    /\ pc = "raised" <=> exception # "none"
    /\ pc \notin {"done", "raised"} => CanStep

C17_GenderPhasesOnceInOrderAndBounded ==
    /\ []GenderPhasesInOrder
    /\ [][/\ StepsLeft' < StepsLeft
          /\ call = "combine" => UNCHANGED <<calls, grouped_female, grouped_male>>]_vars

C17_FinishedAfterRejectedMatchings ==
    /\ is_based_on_gender
    /\ pc = "done"
    /\ calls = <<"female", "male", "combine">>
    /\ rejections >= 2
    /\ evaluated = rejections + 1

\* C18: every call of group_based_on_deviation and of
\* combine_lists_within_threshold starts with its counter at 0, whatever the
\* calls before it consumed: in the search loop the counter is the number of
\* candidates of this call rejected so far, in the recombination loop the
\* number of matchings of this call built so far, and OverRetryException is
\* raised only when this call's own counter has passed MAX_RETRIES.
C18_CounterStartsAtZeroInEachCall ==
    /\ [](pc = "while" => counter = rejections /\ counter = generated - 1)
    /\ [](pc \in {"combine", "combine_return"} => counter = generated)
    /\ [](exception = "OverRetryException" =>
             counter = MAX_RETRIES + 1 /\ counter = generated - (IF call = "combine" THEN 0 ELSE 1))
    /\ [][(pc = "group_based_on_deviation" \/ (pc = "return" /\ call = "male"))
              => counter' = 0]_vars

C18_MaleSearchStartsAfresh ==
    /\ call = "male"
    /\ pc = "while"
    /\ spent = <<MAX_RETRIES>>
    /\ counter = 0

\* C19: in a finished gender-aware request, the tables output_female and
\* output_male hold the female and the male partition that were merged, each
\* of them accepted by the acceptance test; merged group i of result is female
\* group i (column i of output_female) followed by one whole male group (a
\* column of output_male), and every male group is used once.
C19_FemaleInPlaceOneMaleGroupEach ==
    is_based_on_gender /\ pc = "done" =>
        /\ output_female.cols = grouped_female
        /\ output_male.cols = grouped_male
        /\ Verdict(grouped_female) = "accepted"
        /\ Verdict(grouped_male) = "accepted"
        /\ Len(result) = group_amount
        /\ {picks[i] : i \in 1..Len(picks)} = 1..group_amount
        /\ \A i \in 1..group_amount :
               result[i] = output_female.cols[i] \o output_male.cols[picks[i]]
        /\ output.cols = result

C19_FinishedWithCrossedMatching ==
    /\ is_based_on_gender
    /\ pc = "done"
    /\ group_amount = 2
    /\ picks = <<2, 1>>
    /\ grouped_female[1] # grouped_female[2]
    /\ grouped_male[1] # grouped_male[2]

\* C20: when a search or the recombination ends, by returning or by raising
\* OverRetryException, every candidate it generated has been evaluated by the
\* acceptance test.
C20_EveryCandidateEvaluated ==
    (pc \in {"return", "combine_return"} \/ exception = "OverRetryException") =>
        generated = evaluated

====
